---- MODULE Spec2Model ----
(***************************************************************************)
(* Model of the project-structure reconciliation performed by main() of    *)
(* src/git_clone.py on one cloned repository: the three searches, the      *)
(* .project resolution, the (.classpath, src) decision table, the coverage *)
(* check with the relocation of naked .java files, the deletion of         *)
(* module-info.java and the final rename.                                  *)
(*                                                                         *)
(* A path is a sequence of directory names relative to the repository      *)
(* root (<<>> is the repository root).  Paths stored in a .classpath are   *)
(* relative to the project root.                                           *)
(***************************************************************************)
EXTENDS Naturals, Sequences, FiniteSets, TLC

(***************************************************************************)
(* Bounds of the model.                                                    *)
(***************************************************************************)
MaxFiles == 2       \* .java files in the initial tree
MaxRuns == 2        \* successive runs of the engine on the same tree
MaxFaults == 1      \* filesystem faults (OSError) injected on one repository

(***************************************************************************)
(* Paths (pathlib.Path, already normalised: Path("") = Path(".") = <<>>).  *)
(***************************************************************************)
Root == <<>>
App == <<"app">>
Lib == <<"lib">>
\* the null of a path-valued variable or result (Python's None)
None == <<"None">>
NoPkg == "NoPkg"

IsPrefix(p, q) == Len(p) <= Len(q) /\ SubSeq(q, 1, Len(p)) = p
IsProperPrefix(p, q) == Len(p) < Len(q) /\ SubSeq(q, 1, Len(p)) = p
Parent(p) == IF p = Root THEN Root ELSE SubSeq(p, 1, Len(p) - 1)
LastName(p) == p[Len(p)]
RelativeTo(p, base) == SubSeq(p, Len(base) + 1, Len(p))
\* every proper ancestor of p (Path.parents), the root included
Parents(p) == {SubSeq(p, 1, n) : n \in 0..(Len(p) - 1)}
\* p and all its ancestors except the root: what mkdir(parents=True) creates
WithAncestors(p) == {SubSeq(p, 1, n) : n \in 1..Len(p)}

\* directory names whose text contains "src" / "test" (substring tests of the code)
SrcNames == {"src", "mysrc"}
TestNames == {"test"}
ContainsSrc(p) == \E i \in DOMAIN p : p[i] \in SrcNames
ContainsTest(p) == \E i \in DOMAIN p : p[i] \in TestNames

(***************************************************************************)
(* .java file contents: a body is the list of its lines, a line the list   *)
(* of its space-separated words (line.split(" ")).                         *)
(***************************************************************************)
ScanLimit == 50
CommentStarts == {"//", "*", "/*", "/**", "*/"}
PackageWords == {"package"}
TestWords == {"@Test"}
RAISE == "raise"

PkgBody == << <<"package", "com.x;">>, <<"class", "Foo">> >>
PlainBody == << <<"class", "Main">> >>
OtherBody == << <<"class", "Foo", "{}">> >>
TestBody == << <<"//", "package", "old;">>, <<"import", "@Test">> >>
ModuleBody == << <<"module", "m">> >>
\* " package com.x;": the declaration indented by one space
IndentedBody == << <<"", "package", "com.x;">>, <<"class", "Foo">> >>
\* "package" and "com.x;" on two lines
SplitBody == << <<"package">>, <<"com.x;">> >>
\* the declaration on the line after the last one read
LateBody ==
    [i \in 1..(ScanLimit + 1) |->
        IF i = ScanLimit + 1 THEN <<"package", "com.x;">> ELSE <<"import", "a;">>]
ModuleInfo == "module-info.java"

IsCommentLine(line) == Len(line) > 0 /\ line[1] \in CommentStarts
HasWord(line, ws) == \E i \in DOMAIN line : line[i] \in ws
StripSemi(w) ==
    CASE w = "com.x;" -> "com.x"
      [] w = "old;" -> "old"
      [] OTHER -> w

RECURSIVE ScanPackage(_, _)
ScanPackage(lines, i) ==
    IF i > Len(lines) \/ i > ScanLimit THEN NoPkg
    ELSE IF IsCommentLine(lines[i]) THEN ScanPackage(lines, i + 1)
    ELSE IF HasWord(lines[i], PackageWords)
         THEN (IF Len(lines[i]) < 2 THEN RAISE ELSE StripSemi(lines[i][2]))
    ELSE ScanPackage(lines, i + 1)

get_java_file_package(f) == ScanPackage(f.body, 1)

is_junit_java_file(f) ==
    \E i \in DOMAIN f.body :
        /\ i <= ScanLimit
        /\ ~IsCommentLine(f.body[i])
        /\ HasWord(f.body[i], TestWords)

(***************************************************************************)
(* Descriptors.  A .project document: does it parse, has it a buildCommand *)
(* and a nature element, has it a <name> element and what is its text.     *)
(* A .classpath document: does it parse, and its classpathentry elements   *)
(* in document order, each with a kind and a path split at "/".            *)
(***************************************************************************)
NoProject ==
    [parses |-> FALSE, absent |-> TRUE, buildCommand |-> FALSE, nature |-> FALSE,
     hasName |-> FALSE, name |-> ""]
NoClasspath == [parses |-> FALSE, absent |-> TRUE, entries |-> <<>>]
RepoName == "project-1-student"

ProjectDoc(parses, bc, nat, hasName, name) ==
    [parses |-> parses, absent |-> FALSE, buildCommand |-> bc, nature |-> nat,
     hasName |-> hasName, name |-> name]
\* the default .project file: minimal valid form, name tag blank
ProjectTemplate == ProjectDoc(TRUE, TRUE, TRUE, TRUE, "")

ClasspathDoc(parses, entries) == [parses |-> parses, absent |-> FALSE, entries |-> entries]
Entry(kind, path) == [kind |-> kind, path |-> path]
JRE == "org.eclipse.jdt.launching.JRE_CONTAINER"
UserLib == "org.eclipse.jdt.USER_LIBRARY"
JUnit == "org.eclipse.jdt.junit.JUNIT_CONTAINER"
UserLibSegs == {UserLib}
JreSegs == {JRE}
\* the default .classpath file: source "src", local JRE, JUnit 5, JavaFX user library
ClasspathTemplate ==
    ClasspathDoc(TRUE, << Entry("src", <<"src">>), Entry("con", <<JRE>>),
                          Entry("con", <<JUnit, "5">>), Entry("con", <<UserLib, "JavaFX">>),
                          Entry("output", <<"bin">>) >>)

\* "valid", "invalid", or RAISE when the loop raises before deciding
RECURSIVE CheckEntries(_, _)
CheckEntries(entries, i) ==
    IF i > Len(entries) THEN "valid"
    ELSE LET e == entries[i] IN
         IF e.kind = "lib" THEN "invalid"
         ELSE IF e.kind = "con"
              THEN IF e.path = None THEN RAISE
                   ELSE IF \E k \in DOMAIN e.path : e.path[k] \in UserLibSegs
                        THEN IF Len(e.path) < 2 THEN RAISE
                             ELSE IF e.path[2] # "JavaFX" THEN "invalid"
                             ELSE CheckEntries(entries, i + 1)
                   ELSE IF \E k \in DOMAIN e.path : e.path[k] \in JreSegs
                        THEN IF Len(e.path) > 1 THEN "invalid"
                             ELSE CheckEntries(entries, i + 1)
                   ELSE CheckEntries(entries, i + 1)
         ELSE CheckEntries(entries, i + 1)

ClasspathVerdict(doc) == IF ~doc.parses THEN "invalid" ELSE CheckEntries(doc.entries, 1)
is_valid_classpath_file(doc) == ClasspathVerdict(doc) = "valid"

is_valid_project_file(doc) == doc.parses /\ doc.buildCommand /\ doc.nature

\* indices of the src-kind entries of a parsed document
SrcIdx(doc) == {i \in DOMAIN doc.entries : doc.entries[i].kind = "src"}
Min(S) == CHOOSE x \in S : \A y \in S : x <= y

get_classpath_src(doc) ==
    LET hit == {i \in SrcIdx(doc) : ContainsSrc(doc.entries[i].path)}
    IN IF ~doc.parses THEN None
       ELSE IF hit = {} THEN Root
       ELSE doc.entries[Min(hit)].path

get_all_classpath_sources(doc) == {doc.entries[i].path : i \in SrcIdx(doc)}

\* an addition that overwrites the first src entry when there is one
add_classpath_source_replacing(doc, source) ==
    IF ~doc.parses THEN doc
    ELSE IF SrcIdx(doc) = {}
         THEN [doc EXCEPT !.entries = Append(@, Entry("src", source))]
         ELSE [doc EXCEPT !.entries[Min(SrcIdx(doc))].path = source]

add_classpath_source(doc, source) ==
    IF ~doc.parses THEN doc
    ELSE [doc EXCEPT !.entries = Append(@, Entry("src", source))]

\* an edit that appends the source instead of setting the first src entry
set_classpath_source_appended(doc, source) == add_classpath_source(doc, source)

set_classpath_source(doc, source) ==
    IF ~doc.parses THEN doc
    ELSE IF SrcIdx(doc) = {} THEN add_classpath_source(doc, source)
    ELSE [doc EXCEPT !.entries[Min(SrcIdx(doc))].path = source]

(***************************************************************************)
(* The file tree of one cloned repository:                                 *)
(*   dirs  - the existing directories (closed under ancestors),            *)
(*   files - the .java files, each [dir, name, body, orig] with orig the   *)
(*           directory the file was in when the repository was cloned,     *)
(*   proj  - the .project document of each descriptor directory,           *)
(*   cp    - the .classpath document of each descriptor directory.         *)
(***************************************************************************)
DescDirs == {Root, App}

\* the matches rglob can yield first: a directory's own entries come before
\* anything deeper below it, siblings come in the order of the directory listing
FirstYielded(parents) == {d \in parents : ~\E e \in parents : IsProperPrefix(e, d)}

\* a search that yields the deepest match first
find_project_file_deepest(tree, from) ==
    LET hits == {d \in DescDirs : IsPrefix(from, d) /\ ~tree.proj[d].absent}
    IN {d \in hits : ~\E e \in hits : IsProperPrefix(d, e)}

find_project_file(tree, from) ==
    FirstYielded({d \in DescDirs : IsPrefix(from, d) /\ ~tree.proj[d].absent})

find_classpath_file_deepest(tree, from) ==
    LET hits == {d \in DescDirs : IsPrefix(from, d) /\ ~tree.cp[d].absent}
    IN {d \in hits : ~\E e \in hits : IsProperPrefix(d, e)}

find_classpath_file(tree, from) ==
    FirstYielded({d \in DescDirs : IsPrefix(from, d) /\ ~tree.cp[d].absent})

find_src_dir(tree, project_root) ==
    LET hits == {d \in tree.dirs : IsProperPrefix(project_root, d) /\ LastName(d) = "src"}
        first == {d \in hits : ~\E e \in hits : IsProperPrefix(Parent(e), Parent(d))}
    IN {RelativeTo(d, project_root) : d \in first}

JavaFilesUnder(tree, project_root) == {f \in tree.files : IsPrefix(project_root, f.dir)}

find_java_file_folders(tree, project_root) ==
    {LET parent == RelativeTo(f.dir, project_root)
     IN IF parent # Root THEN <<parent[1]>> ELSE Root
     : f \in JavaFilesUnder(tree, project_root)}

get_naked_java_files(tree, project_root) == {f \in tree.files : f.dir = project_root}

\* Path.move_into(target): OSError when the target directory is missing or the
\* file is already there; otherwise os.replace, which overwrites a file of the
\* same name in the target directory
MoveInto(dirs, files, f, target) ==
    IF target \notin dirs \/ target = f.dir THEN files
    ELSE {g \in files : g # f /\ ~(g.dir = target /\ g.name = f.name)}
            \cup {[f EXCEPT !.dir = target]}

Orders(S) == {s \in [1..Cardinality(S) -> S] : \A i, j \in DOMAIN s : i # j => s[i] # s[j]}
Key(f) == <<f.dir, f.name>>
FileAt(files, key) == CHOOSE f \in files : Key(f) = key

\* the loop of create_src_dir over the snapshot of rglob("*.java"), a list of paths
RECURSIVE CreateSrcLoop(_, _, _, _, _)
CreateSrcLoop(st, keys, i, new_src_dir, fault) ==
    IF i > Len(keys) \/ st.crashed THEN st
    ELSE LET file == FileAt(st.files, keys[i])
             package_name == get_java_file_package(file)
         IN IF package_name = RAISE
            THEN [st EXCEPT !.crashed = TRUE]
            ELSE IF package_name # NoPkg
            THEN LET new_package_dir == Append(new_src_dir, package_name)
                     dirs2 == IF package_name \in st.packages
                              THEN st.dirs ELSE st.dirs \cup {new_package_dir}
                     files2 == IF fault = "move" THEN st.files
                               ELSE MoveInto(dirs2, st.files, file, new_package_dir)
                 IN CreateSrcLoop([st EXCEPT !.dirs = dirs2, !.files = files2,
                                             !.packages = @ \cup {package_name}],
                                  keys, i + 1, new_src_dir, fault)
            ELSE LET files2 == IF fault = "move" THEN st.files
                               ELSE MoveInto(st.dirs, st.files, file, new_src_dir)
                 IN CreateSrcLoop([st EXCEPT !.files = files2], keys, i + 1, new_src_dir, fault)

\* create_src_dir(project_root, src_dir_path): the possible outcomes, each the tree
\* afterwards and whether an exception escaped; one outcome per order in which
\* rglob can list the .java files
create_src_dir(tree, project_root, src_dir_path, fault) ==
    LET new_src_dir == project_root \o src_dir_path
        made == tree.dirs \cup WithAncestors(new_src_dir)
        snapshot == {Key(f) : f \in JavaFilesUnder(tree, project_root)}
    IN IF fault = "mkdir" THEN {[tree |-> tree, crashed |-> FALSE]}
       ELSE {LET st == CreateSrcLoop([dirs |-> made, files |-> tree.files,
                                      packages |-> {}, crashed |-> FALSE],
                                     keys, 1, new_src_dir, fault)
             IN [tree |-> [tree EXCEPT !.dirs = st.dirs, !.files = st.files],
                 crashed |-> st.crashed]
             : keys \in Orders(snapshot)}

\* the candidates for test_src: the loop keeps the last source whose text contains
\* "test", in the iteration order of a set
TestSrcChoices(doc) ==
    LET tests == {s \in get_all_classpath_sources(doc) : ContainsTest(s)}
    IN IF tests = {} THEN {None} ELSE tests

RECURSIVE MoveNakedLoop(_, _, _, _, _, _, _)
MoveNakedLoop(st, keys, i, project_root, src, test_src, fault) ==
    IF i > Len(keys) \/ st.crashed THEN st
    ELSE LET naked_java_file == FileAt(st.tree.files, keys[i])
             package == get_java_file_package(naked_java_file)
             is_test_file == is_junit_java_file(naked_java_file)
             dest == IF is_test_file /\ test_src # None THEN test_src ELSE src
             target == IF package # NoPkg THEN Append(project_root \o dest, package)
                       ELSE project_root \o dest
         IN IF package = RAISE THEN [st EXCEPT !.crashed = TRUE]
            ELSE MoveNakedLoop(
                    [st EXCEPT !.tree.files =
                        IF fault = "move" THEN @
                        ELSE MoveInto(st.tree.dirs, @, naked_java_file, target)],
                    keys, i + 1, project_root, src, test_src, fault)

move_naked_java_files(tree, project_root, doc, fault) ==
    {MoveNakedLoop([tree |-> tree, crashed |-> FALSE], keys, 1, project_root,
                   get_classpath_src(doc), test_src, fault)
     : keys \in Orders({Key(f) : f \in get_naked_java_files(tree, project_root)}),
       test_src \in TestSrcChoices(doc)}

Covered(java_file_folder, current_source_folders) ==
    \/ java_file_folder \in current_source_folders
    \/ Parent(java_file_folder) \in current_source_folders
    \/ /\ java_file_folder # Root
       /\ \E source \in current_source_folders : java_file_folder \in Parents(source)

\* an iteration that declares the uncovered folder whatever it is
CheckStep_root_declared(sts, java_file_folder, project_root, classpath_file, fault) ==
    UNION {
        LET doc == st.tree.cp[classpath_file] IN
        IF st.crashed \/ Covered(java_file_folder, get_all_classpath_sources(doc))
        THEN {st}
        ELSE {[st EXCEPT !.tree.cp[classpath_file] =
                            add_classpath_source(doc, java_file_folder)]}
        : st \in sts}

\* one iteration of the loop of check_classpath_sources, from each state of sts
CheckStep(sts, java_file_folder, project_root, classpath_file, fault) ==
    UNION {
        LET doc == st.tree.cp[classpath_file] IN
        IF st.crashed \/ Covered(java_file_folder, get_all_classpath_sources(doc))
        THEN {st}
        ELSE IF java_file_folder = Root
        THEN move_naked_java_files(st.tree, project_root, doc, fault)
        ELSE {[st EXCEPT !.tree.cp[classpath_file] =
                            add_classpath_source(doc, java_file_folder)]}
        : st \in sts}

RECURSIVE CheckLoop(_, _, _, _, _, _)
CheckLoop(sts, folders, i, project_root, classpath_file, fault) ==
    IF i > Len(folders) THEN sts
    ELSE CheckLoop(CheckStep(sts, folders[i], project_root, classpath_file, fault),
                   folders, i + 1, project_root, classpath_file, fault)

\* check_classpath_sources(project_root, classpath_file): the possible outcomes
check_classpath_sources(tree, project_root, classpath_file, fault) ==
    LET java_file_folders == find_java_file_folders(tree, project_root)
    IN IF classpath_file = None THEN {[tree |-> tree, crashed |-> TRUE]}
       ELSE IF java_file_folders = {} THEN {[tree |-> tree, crashed |-> FALSE]}
       ELSE IF ~tree.cp[classpath_file].parses THEN {[tree |-> tree, crashed |-> TRUE]}
       ELSE UNION {CheckLoop({[tree |-> tree, crashed |-> FALSE]}, folders, 1,
                             project_root, classpath_file, fault)
                   : folders \in Orders(java_file_folders)}

delete_module_info_java(tree, project_root) ==
    LET mod_info == {f \in JavaFilesUnder(tree, project_root) : f.name = ModuleInfo}
        first == {f \in mod_info : ~\E g \in mod_info : IsProperPrefix(g.dir, f.dir)}
    IN IF mod_info = {} THEN {tree}
       ELSE {[tree EXCEPT !.files = @ \ {f}] : f \in first}

inject_project_file(tree, project_root, fault) ==
    IF fault = "copy" THEN tree
    ELSE [tree EXCEPT !.proj[project_root] = ProjectTemplate]

\* an injection that leaves the src path of the default file as it is
inject_classpath_file_default(tree, project_root, source_dir, fault) ==
    IF fault = "copy" THEN tree
    ELSE [tree EXCEPT !.cp[project_root] = ClasspathTemplate]

inject_classpath_file(tree, project_root, source_dir, fault) ==
    IF fault = "copy" THEN tree
    ELSE [tree EXCEPT !.cp[project_root] =
            IF source_dir # <<"src">> THEN set_classpath_source(ClasspathTemplate, source_dir)
            ELSE ClasspathTemplate]

\* rename_project(project_file, repo_name): the tree afterwards, whether an exception
\* escaped (no file, or no <name> element) and whether the file was written
rename_project(tree, project_file, repo_name) ==
    IF project_file = None THEN [tree |-> tree, crashed |-> TRUE, wrote |-> FALSE]
    ELSE LET doc == tree.proj[project_file] IN
         IF ~doc.parses THEN [tree |-> tree, crashed |-> FALSE, wrote |-> FALSE]
         ELSE IF ~doc.hasName THEN [tree |-> tree, crashed |-> TRUE, wrote |-> FALSE]
         ELSE [tree |-> [tree EXCEPT !.proj[project_file].name = repo_name],
               crashed |-> FALSE, wrote |-> TRUE]

(***************************************************************************)
(* The initial trees: what a student repository can look like.             *)
(***************************************************************************)
PValid == ProjectDoc(TRUE, TRUE, TRUE, TRUE, "old")
PNoName == ProjectDoc(TRUE, TRUE, TRUE, FALSE, "")
PNoNature == ProjectDoc(TRUE, TRUE, FALSE, TRUE, "old")
PBroken == ProjectDoc(FALSE, FALSE, FALSE, FALSE, "")

CStd == ClasspathDoc(TRUE, << Entry("src", <<"src">>), Entry("con", <<JRE>>) >>)
CTestFirst == ClasspathDoc(TRUE, << Entry("src", <<"test">>), Entry("src", <<"src">>) >>)
CSrcTest == ClasspathDoc(TRUE, << Entry("src", <<"src">>), Entry("src", <<"test">>),
                                 Entry("con", <<JRE>>) >>)
CMy == ClasspathDoc(TRUE, << Entry("src", <<"mysrc">>), Entry("con", <<JRE>>) >>)
CNoSrc == ClasspathDoc(TRUE, << Entry("con", <<JRE>>) >>)
CLib == ClasspathDoc(TRUE, << Entry("src", <<"src">>), Entry("lib", <<"x.jar">>) >>)
CBroken == ClasspathDoc(FALSE, <<>>)
CNoLibName == ClasspathDoc(TRUE, << Entry("src", <<"src">>), Entry("con", <<UserLib>>) >>)
CRoot == ClasspathDoc(TRUE, << Entry("src", Root), Entry("con", <<JRE>>) >>)

OnlyAt(at, doc, none) == [d \in DescDirs |-> IF d = at THEN doc ELSE none]
JavaFile(dir, name, body) == [dir |-> dir, name |-> name, body |-> body, orig |-> dir]
UpTo(n, S) == {fs \in SUBSET S : Cardinality(fs) <= n}

Tree(proj, cp, files, extra) ==
    [ dirs |-> {Root} \cup UNION {WithAncestors(d) : d \in extra}
                      \cup UNION {WithAncestors(f.dir) : f \in files}
                      \cup UNION {WithAncestors(d) : d \in {e \in DescDirs :
                                        ~proj[e].absent \/ ~cp[e].absent}},
      files |-> files, proj |-> proj, cp |-> cp ]

\* every state of the .project file, on a few simple trees
ProjectTrees ==
    { Tree(proj, cp, files, extra) :
        proj \in { OnlyAt(Root, doc, NoProject)
                   : doc \in {NoProject, PValid, PNoName, PNoNature, PBroken} }
                 \cup { OnlyAt(App, doc, NoProject) : doc \in {PValid, PBroken} }
                 \cup { [d \in DescDirs |-> IF d = App THEN PValid ELSE PBroken] },
        cp \in { OnlyAt(Root, doc, NoClasspath) : doc \in {NoClasspath, CStd} }
               \cup { OnlyAt(App, doc, NoClasspath) : doc \in {CStd, CLib} },
        files \in UpTo(MaxFiles - 1, { JavaFile(Root, "Main.java", PlainBody),
                                       JavaFile(<<"src">>, "Main.java", PlainBody),
                                       JavaFile(App, "Foo.java", OtherBody),
                                       JavaFile(<<"app", "src">>, "Main.java", PlainBody) }),
        extra \in { {}, {<<"src">>} } }

\* a valid .project file at the repository root: every state of the .classpath
\* file, of the src directory and of the .java files
SourceTrees ==
    { Tree(OnlyAt(Root, PValid, NoProject), cp, files, extra) :
        cp \in { OnlyAt(Root, doc, NoClasspath)
                 : doc \in {NoClasspath, CStd, CSrcTest, CTestFirst, CMy, CNoSrc, CRoot, CLib,
                            CBroken, CNoLibName} },
        files \in UpTo(MaxFiles,
                    { JavaFile(Root, "Foo.java", PkgBody),
                      JavaFile(Root, "Main.java", PlainBody),
                      JavaFile(Root, "FooTest.java", TestBody),
                      JavaFile(Root, ModuleInfo, ModuleBody),
                      JavaFile(<<"src">>, "Main.java", PlainBody),
                      JavaFile(<<"test">>, "FooTest.java", TestBody),
                      JavaFile(Lib, "Foo.java", OtherBody),
                      JavaFile(Lib, ModuleInfo, ModuleBody),
                      JavaFile(<<"lib", "util">>, "Foo.java", PlainBody),
                      JavaFile(App, "Foo.java", OtherBody),
                      JavaFile(<<"app", "src">>, "Main.java", PlainBody) }),
        extra \in { {}, {<<"src">>}, {<<"src">>, <<"test">>},
                    {<<"src">>, <<"src", "com.x">>} } }

\* a valid .project file below the repository root
NestedTrees ==
    { Tree(OnlyAt(App, PValid, NoProject), cp, files, extra) :
        cp \in { OnlyAt(Root, doc, NoClasspath) : doc \in {NoClasspath, CStd, CLib} }
               \cup { OnlyAt(App, doc, NoClasspath) : doc \in {CStd, CLib} },
        files \in UpTo(MaxFiles, { JavaFile(Root, "Main.java", PlainBody),
                                   JavaFile(App, "Foo.java", PkgBody),
                                   JavaFile(App, "FooTest.java", TestBody),
                                   JavaFile(<<"app", "src">>, "Main.java", PlainBody) }),
        extra \in { {}, {<<"src">>}, {<<"app", "src">>} } }

\* no descriptor, no src directory, one file at the root declaring package com.x
ScenarioA ==
    Tree(OnlyAt(Root, NoProject, NoProject), OnlyAt(Root, NoClasspath, NoClasspath),
         {JavaFile(Root, "Foo.java", PkgBody)}, {})

\* a valid .project file, a .classpath file without a src entry, the directory com.x
\* at the root and a file at the root declaring package com.x
PackageDirAtRoot ==
    Tree(OnlyAt(Root, PValid, NoProject), OnlyAt(Root, CNoSrc, NoClasspath),
         {JavaFile(Root, "Foo.java", PkgBody)}, {<<"com.x">>})

\* a valid project with one file at the root, for each layout of the package
\* declaration
ScanTrees ==
    { Tree(OnlyAt(Root, PValid, NoProject), OnlyAt(Root, CStd, NoClasspath),
           {JavaFile(Root, "Foo.java", body)}, {<<"src">>})
      : body \in {IndentedBody, SplitBody, LateBody} }

InitTrees ==
    ProjectTrees \cup SourceTrees \cup NestedTrees \cup ScanTrees
        \cup {ScenarioA, PackageDirAtRoot}

(***************************************************************************)
(* The run of main() on one repository, step by step.                      *)
(***************************************************************************)
VARIABLES
    tree,                   \* the file tree of the repository
    pc,                     \* the position of main() in the run
    project_file,           \* directory of the .project file in use, or None
    project_file_search,    \* FALSE when the .project search raised OSError
    classpath_file,         \* directory of the .classpath file in use, or None
    classpath_file_search,  \* FALSE when the .classpath search raised OSError
    src_dir,                \* the found src directory, relative to the project root
    src_dir_search,         \* FALSE when the src search raised OSError
    project_root,           \* directory of the .project file, else the repository root
    faults,                 \* the OSErrors raised so far in this run
    log,                    \* the notable actions of this run
    start,                  \* the tree when this run began
    run,                    \* number of the run on this repository
    past_faults             \* the OSErrors raised in the earlier runs

vars == <<tree, pc, project_file, project_file_search, classpath_file,
          classpath_file_search, src_dir, src_dir_search, project_root, faults, log,
          start, run, past_faults>>

locals == <<project_file, project_file_search, classpath_file, classpath_file_search,
            src_dir, src_dir_search, project_root>>

Init ==
    /\ tree \in InitTrees
    /\ start = tree
    /\ pc = "search"
    /\ project_file = None /\ project_file_search = TRUE
    /\ classpath_file = None /\ classpath_file_search = TRUE
    /\ src_dir = None /\ src_dir_search = TRUE
    /\ project_root = Root
    /\ faults = {}
    /\ log = {}
    /\ run = 1
    /\ past_faults = {}

\* a search result: the path found, or None
Found(S) == IF S = {} THEN {None} ELSE S
\* the faults that may still be injected among kinds: at most MaxFaults kinds of
\* OSError over the runs on one repository
MayFail(kinds) == {F \in SUBSET kinds : Cardinality(past_faults \cup faults \cup F) <= MaxFaults}
FaultOf(F, kind, name) == IF name \in F THEN kind ELSE "none"

\* what changed between two trees
Diff(old, new) ==
    (IF \E f \in new.files : f \notin old.files THEN {"move"} ELSE {})
    \cup (IF new.dirs # old.dirs THEN {"mkdir"} ELSE {})
    \cup (IF new.cp # old.cp THEN {"classpath_write"} ELSE {})
    \cup (IF new.proj # old.proj THEN {"project_write"} ELSE {})

\* lines 820-826: the three searches from the repository root
Probe ==
    /\ pc = "search"
    /\ \E F \in MayFail({"search_project", "search_classpath", "search_src"}) :
        /\ faults' = faults \cup F
        /\ project_file_search' = ("search_project" \notin F)
        /\ classpath_file_search' = ("search_classpath" \notin F)
        /\ src_dir_search' = ("search_src" \notin F)
        /\ project_file' \in IF "search_project" \in F THEN {None}
                             ELSE Found(find_project_file(tree, Root))
        /\ classpath_file' \in IF "search_classpath" \in F THEN {None}
                               ELSE Found(find_classpath_file(tree, Root))
        /\ src_dir' \in IF "search_src" \in F THEN {None}
                        ELSE Found(find_src_dir(tree, Root))
    /\ pc' = "project"
    /\ UNCHANGED <<tree, project_root, log, start, run, past_faults>>

\* lines 850-856: the project root, and the src search again when it is not the
\* repository root; F are the faults the step has injected already
SetProjectRoot(new_project_file, F) ==
    LET root == IF new_project_file # None THEN new_project_file ELSE Root
    IN /\ project_root' = root
       /\ IF root # Root
          THEN \E G \in SUBSET {"search_src"} :
                /\ Cardinality(past_faults \cup faults \cup F \cup G) <= MaxFaults
                /\ faults' = faults \cup F \cup G
                /\ src_dir_search' = ("search_src" \notin G)
                /\ src_dir' \in IF "search_src" \in G THEN {None}
                                ELSE Found(find_src_dir(tree', root))
          ELSE /\ faults' = faults \cup F
               /\ UNCHANGED <<src_dir, src_dir_search>>

\* lines 841-842: a .project file was found and is valid
ProjectKept ==
    /\ pc = "project"
    /\ project_file # None /\ project_file_search
    /\ is_valid_project_file(tree.proj[project_file])
    /\ UNCHANGED <<tree, project_file, log>>
    /\ SetProjectRoot(project_file, {})
    /\ pc' = "match"
    /\ UNCHANGED <<project_file_search, classpath_file, classpath_file_search, start, run, past_faults>>

\* lines 843-845, 847-848: a .project file is injected at the repository root and
\* searched again
InjectProject(F) ==
    /\ tree' = inject_project_file(tree, Root, FaultOf(F, "copy", "copy_project"))
    /\ project_file' \in Found(find_project_file(tree', Root))
    /\ log' = log \cup Diff(tree, tree')
                  \cup (IF "copy_project" \in F THEN {} ELSE {"inject_project"})

\* lines 841-845: a .project file was found and is not valid
ProjectInvalid ==
    /\ pc = "project"
    /\ project_file # None /\ project_file_search
    /\ ~is_valid_project_file(tree.proj[project_file])
    /\ \E F \in MayFail({"copy_project"}) :
        /\ InjectProject(F)
        /\ SetProjectRoot(project_file', F)
    /\ pc' = "match"
    /\ UNCHANGED <<project_file_search, classpath_file, classpath_file_search, start, run, past_faults>>

\* lines 846-848: no .project file was found
ProjectMissing ==
    /\ pc = "project"
    /\ project_file = None /\ project_file_search
    /\ \E F \in MayFail({"copy_project"}) :
        /\ InjectProject(F)
        /\ SetProjectRoot(project_file', F)
    /\ pc' = "match"
    /\ UNCHANGED <<project_file_search, classpath_file, classpath_file_search, start, run, past_faults>>

\* the .project search raised: neither branch of lines 841-848 is taken
ProjectSearchError ==
    /\ pc = "project"
    /\ ~project_file_search
    /\ UNCHANGED <<tree, project_file, log>>
    /\ SetProjectRoot(project_file, {})
    /\ pc' = "match"
    /\ UNCHANGED <<project_file_search, classpath_file, classpath_file_search, start, run, past_faults>>

\* the effect of a step: the new tree, where main() goes on, what it did
Step(new_tree, crashed, next_pc, events, F) ==
    /\ tree' = new_tree
    /\ pc' = IF crashed THEN "crashed" ELSE next_pc
    /\ log' = log \cup Diff(tree, new_tree) \cup events
    /\ faults' = faults \cup F

\* inject_classpath_file followed by the search that resets classpath_file
InjectClasspath(source_dir, F) ==
    LET injected == inject_classpath_file(tree, project_root, source_dir,
                                          FaultOf(F, "copy", "copy_classpath"))
    IN [tree |-> injected,
        found |-> Found(find_classpath_file(injected, project_root)),
        events |-> IF "copy_classpath" \in F THEN {} ELSE {"inject_classpath"}]

ClasspathFound == classpath_file # None /\ classpath_file_search
ClasspathMissing == classpath_file = None /\ classpath_file_search
SrcFound == src_dir # None /\ src_dir_search
SrcMissing == src_dir = None /\ src_dir_search
SrcError == src_dir = None /\ ~src_dir_search

\* is_valid_classpath_file raises (lines 255-257): nothing in main() catches it
ValidatorRaises ==
    /\ pc = "match"
    /\ ClasspathFound
    /\ ClasspathVerdict(tree.cp[classpath_file]) = RAISE
    /\ pc' = "crashed"
    /\ UNCHANGED <<tree, locals, faults, log, start, run, past_faults>>

\* lines 861-868: .classpath exists, src exists
Case1 ==
    /\ pc = "match"
    /\ ClasspathFound /\ SrcFound
    /\ ClasspathVerdict(tree.cp[classpath_file]) # RAISE
    /\ LET doc == tree.cp[classpath_file] IN
       IF ~is_valid_classpath_file(doc)
       THEN \E F \in MayFail({"copy_classpath"}) :
              LET r == InjectClasspath(src_dir, F)
              IN /\ classpath_file' \in r.found
                 /\ Step(r.tree, FALSE, "coverage", r.events, F)
       ELSE /\ UNCHANGED classpath_file
            /\ IF get_classpath_src(doc) # src_dir
               THEN Step([tree EXCEPT !.cp[classpath_file] =
                                set_classpath_source(doc, src_dir)],
                         FALSE, "coverage", {}, {})
               ELSE Step(tree, FALSE, "coverage", {}, {})
    /\ UNCHANGED <<project_file, project_file_search, classpath_file_search, src_dir,
                   src_dir_search, project_root, start, run, past_faults>>

\* lines 871-878: .classpath exists, src does not exist
Case2 ==
    /\ pc = "match"
    /\ ClasspathFound /\ SrcMissing
    /\ ClasspathVerdict(tree.cp[classpath_file]) # RAISE
    /\ LET doc == tree.cp[classpath_file] IN
       IF ~is_valid_classpath_file(doc)
       THEN \E F \in MayFail({"copy_classpath", "mkdir", "move"}) :
              LET r == InjectClasspath(<<"src">>, F)
              IN /\ classpath_file' \in r.found
                 /\ \E c \in create_src_dir(r.tree, project_root, <<"src">>,
                                            IF "mkdir" \in F THEN "mkdir"
                                            ELSE FaultOf(F, "move", "move")) :
                        Step(c.tree, c.crashed, "coverage", r.events, F)
       ELSE /\ UNCHANGED classpath_file
            /\ IF get_classpath_src(doc) # Root
               THEN \E F \in MayFail({"mkdir", "move"}) :
                      \E c \in create_src_dir(tree, project_root, get_classpath_src(doc),
                                              IF "mkdir" \in F THEN "mkdir"
                                              ELSE FaultOf(F, "move", "move")) :
                          Step(c.tree, c.crashed, "coverage", {}, F)
               ELSE Step(tree, FALSE, "coverage", {}, {})
    /\ UNCHANGED <<project_file, project_file_search, classpath_file_search, src_dir,
                   src_dir_search, project_root, start, run, past_faults>>

\* lines 881-885: .classpath exists, the src search raised
Case3 ==
    /\ pc = "match"
    /\ ClasspathFound /\ SrcError
    /\ ClasspathVerdict(tree.cp[classpath_file]) # RAISE
    /\ IF ~is_valid_classpath_file(tree.cp[classpath_file])
       THEN \E F \in MayFail({"copy_classpath"}) :
              LET r == InjectClasspath(<<"src">>, F)
              IN /\ classpath_file' \in r.found
                 /\ Step(r.tree, FALSE, "coverage", r.events, F)
       ELSE /\ UNCHANGED classpath_file
            /\ Step(tree, FALSE, "coverage", {}, {})
    /\ UNCHANGED <<project_file, project_file_search, classpath_file_search, src_dir,
                   src_dir_search, project_root, start, run, past_faults>>

\* lines 888-891: .classpath does not exist, src exists
Case4 ==
    /\ pc = "match"
    /\ ClasspathMissing /\ SrcFound
    /\ \E F \in MayFail({"copy_classpath"}) :
          LET r == InjectClasspath(src_dir, F)
          IN /\ classpath_file' \in r.found
             /\ Step(r.tree, FALSE, "coverage", r.events, F)
    /\ UNCHANGED <<project_file, project_file_search, classpath_file_search, src_dir,
                   src_dir_search, project_root, start, run, past_faults>>

\* lines 894-897: .classpath does not exist, the src search raised
Case5 ==
    /\ pc = "match"
    /\ ClasspathMissing /\ SrcError
    /\ \E F \in MayFail({"copy_classpath"}) :
          LET r == InjectClasspath(<<"src">>, F)
          IN /\ classpath_file' \in r.found
             /\ Step(r.tree, FALSE, "coverage", r.events, F)
    /\ UNCHANGED <<project_file, project_file_search, classpath_file_search, src_dir,
                   src_dir_search, project_root, start, run, past_faults>>

\* lines 900-904: .classpath does not exist, src does not exist
Case6 ==
    /\ pc = "match"
    /\ ClasspathMissing /\ SrcMissing
    /\ \E F \in MayFail({"copy_classpath", "mkdir", "move"}) :
          LET r == InjectClasspath(<<"src">>, F)
          IN /\ classpath_file' \in r.found
             /\ \E c \in create_src_dir(r.tree, project_root, <<"src">>,
                                        IF "mkdir" \in F THEN "mkdir"
                                        ELSE FaultOf(F, "move", "move")) :
                    Step(c.tree, c.crashed, "coverage", r.events, F)
    /\ UNCHANGED <<project_file, project_file_search, classpath_file_search, src_dir,
                   src_dir_search, project_root, start, run, past_faults>>

\* lines 907-909: the .classpath search raised
Case7 ==
    /\ pc = "match"
    /\ ~classpath_file_search
    /\ Step(tree, FALSE, "coverage", {}, {})
    /\ UNCHANGED locals
    /\ UNCHANGED <<start, run, past_faults>>

\* a coverage check that does not look at the outcome of the .classpath search
Coverage_unguarded ==
    /\ pc = "coverage"
    /\ \E F \in MayFail({"move"}) :
          \E c \in check_classpath_sources(tree, project_root, classpath_file,
                                           FaultOf(F, "move", "move")) :
              Step(c.tree, c.crashed, "delete", {"coverage_check"}, F)
    /\ UNCHANGED locals
    /\ UNCHANGED <<start, run, past_faults>>

\* lines 912-913: the coverage check, unless the .classpath search raised
Coverage ==
    /\ pc = "coverage"
    /\ IF classpath_file_search
       THEN \E F \in MayFail({"move"}) :
              \E c \in check_classpath_sources(tree, project_root, classpath_file,
                                               FaultOf(F, "move", "move")) :
                  Step(c.tree, c.crashed, "delete", {"coverage_check"}, F)
       ELSE Step(tree, FALSE, "delete", {}, {})
    /\ UNCHANGED locals
    /\ UNCHANGED <<start, run, past_faults>>

\* line 916
DeleteModuleInfo ==
    /\ pc = "delete"
    /\ \E t \in delete_module_info_java(tree, project_root) :
          Step(t, FALSE, "rename", IF t # tree THEN {"delete"} ELSE {}, {})
    /\ UNCHANGED locals
    /\ UNCHANGED <<start, run, past_faults>>

\* line 918
Rename ==
    /\ pc = "rename"
    /\ LET r == rename_project(tree, project_file, RepoName)
       IN Step(r.tree, r.crashed, "done",
               IF r.wrote THEN {"project_write"} ELSE {}, {})
    /\ UNCHANGED locals
    /\ UNCHANGED <<start, run, past_faults>>

\* the engine is run again on the tree the previous run left
RunAgain ==
    /\ pc = "done"
    /\ run < MaxRuns
    /\ run' = run + 1
    /\ start' = tree
    /\ pc' = "search"
    /\ project_file' = None /\ project_file_search' = TRUE
    /\ classpath_file' = None /\ classpath_file_search' = TRUE
    /\ src_dir' = None /\ src_dir_search' = TRUE
    /\ project_root' = Root
    /\ past_faults' = past_faults \cup faults
    /\ faults' = {}
    /\ log' = {}
    /\ UNCHANGED tree

Next ==
    \/ Probe
    \/ ProjectKept \/ ProjectInvalid \/ ProjectMissing \/ ProjectSearchError
    \/ ValidatorRaises
    \/ Case1 \/ Case2 \/ Case3 \/ Case4 \/ Case5 \/ Case6 \/ Case7
    \/ Coverage \/ DeleteModuleInfo \/ Rename
    \/ RunAgain

Spec == Init /\ [][Next]_vars

(***************************************************************************)
(* Properties.                                                             *)
(***************************************************************************)
RunEnded == pc = "done"
NoFault == faults = {}
\* the .classpath document main() holds at this point
ClasspathInUse == tree.cp[classpath_file]
DeclaredSources == get_all_classpath_sources(ClasspathInUse)
\* d itself or one of its ancestors is a declared source path
DeclaredCovers(sources, d) == \E n \in 0..Len(d) : SubSeq(d, 1, n) \in sources
\* the file of the current tree that was f when the run began
Survives(f) ==
    \E g \in tree.files : g.name = f.name /\ g.body = f.body /\ g.orig = f.orig
Under(dir, f) ==
    \E g \in tree.files : /\ g.name = f.name /\ g.body = f.body /\ g.orig = f.orig
                          /\ IsPrefix(dir, g.dir)

\* C1: after a run in which the .classpath search did not raise, every directory
\* other than the project root that holds a .java file is a declared src path or
\* lies below one.
C1_EveryFolderCovered ==
    (RunEnded /\ classpath_file_search) =>
        \A f \in JavaFilesUnder(tree, project_root) :
            f.dir # project_root =>
                /\ classpath_file # None
                /\ DeclaredCovers(DeclaredSources, RelativeTo(f.dir, project_root))

\* C2: every .java file present when the run began, module-info.java excepted,
\* still exists with the same content when the run has ended.
C2_NoSourceFileLost ==
    RunEnded => \A f \in start.files : f.name # ModuleInfo => Survives(f)

\* C3: the second of two successive runs, neither of which met an OSError, moves
\* no file, creates no directory and writes no descriptor.
C3_SecondRunWritesNothing ==
    (run = 2 /\ past_faults = {} /\ NoFault) => log \cap {"move", "mkdir", "classpath_write", "project_write",
                         "inject_project", "inject_classpath"} = {}

\* C4: a failed search, copy, mkdir or move never ends the run by an uncaught
\* exception (on a tree that a run without failures gets through).
CleanTree(t) ==
    /\ \A d \in DescDirs : ClasspathVerdict(t.cp[d]) # RAISE
    /\ \A d \in DescDirs : is_valid_project_file(t.proj[d]) => t.proj[d].hasName
    /\ \A f \in t.files : get_java_file_package(f) # RAISE
C4_FaultNeverCrashes ==
    (~NoFault /\ CleanTree(start)) => pc # "crashed"

\* C5: when a run without search error and without filesystem fault has ended,
\* the .project file that defines the project root and the .classpath file in use
\* both pass their validator.
C5_DescriptorsValidAtEnd ==
    (RunEnded /\ NoFault) =>
        /\ project_file # None
        /\ project_root = project_file
        /\ is_valid_project_file(tree.proj[project_file])
        /\ classpath_file # None
        /\ is_valid_classpath_file(ClasspathInUse)
C5_Witness ==
    /\ RunEnded /\ NoFault /\ run = 1
    /\ start.proj[App] = PBroken /\ start.cp[App] = CLib
    /\ {"inject_project", "inject_classpath"} \subseteq log

\* C6: whenever a descriptor was injected, the file found by the search that
\* follows the injection passes the validator, also after the src path of the
\* injected .classpath was set to the found source directory.
C6_InjectedIsValid ==
    /\ (pc = "match" /\ "inject_project" \in log) =>
            project_file # None /\ is_valid_project_file(tree.proj[project_file])
    /\ (pc = "coverage" /\ "inject_classpath" \in log) =>
            classpath_file # None /\ is_valid_classpath_file(ClasspathInUse)
C6_Witness ==
    /\ pc = "coverage" /\ {"inject_project", "inject_classpath"} \subseteq log
    /\ src_dir = <<"app", "src">>
    /\ get_classpath_src(ClasspathInUse) = src_dir

\* C7: the rename is the last step of every run: in a run that met no OSError it
\* ends the run, and the .project file in use then carries the repository name.
C7_NameSetAtEnd ==
    [][(pc = "rename" /\ NoFault) =>
          /\ pc' = "done"
          /\ project_file # None
          /\ tree'.proj[project_file].name = RepoName]_vars

\* C8: no step adds a src entry whose path is the project root, or sets the path
\* of a src entry to it.
RootEntries(doc) == {i \in SrcIdx(doc) : doc.entries[i].path = Root}
C8_RootNeverDeclared ==
    [][\A d \in DescDirs : RootEntries(tree'.cp[d]) \subseteq RootEntries(tree.cp[d])]_vars
C8_Witness ==
    /\ pc = "delete" /\ "coverage_check" \in log /\ "move" \in log
    /\ \E f \in start.files : f.dir = project_root
    /\ Root \in find_java_file_folders(start, project_root)

\* C9: from no descriptor, no src directory and one root file declaring package
\* com.x, the run ends with the file in src/com/x, one src entry "src" and the
\* repository name in the .project file.
C9_ScenarioA ==
    (RunEnded /\ NoFault /\ run = 1 /\ start = ScenarioA) =>
        /\ \A f \in start.files : Under(<<"src", "com", "x">>, f)
        /\ classpath_file # None /\ DeclaredSources = {<<"src">>}
        /\ Cardinality(SrcIdx(ClasspathInUse)) = 1
        /\ project_file # None /\ tree.proj[project_file].name = RepoName

\* C10: with a primary src entry and a src entry whose path contains "test", every
\* naked file marked test ends under the test entry's path and every other naked
\* file under the primary entry's path.
C10_NakedFilesRouted ==
    (RunEnded /\ NoFault /\ run = 1 /\ start.cp[Root] = CSrcTest /\ project_root = Root) =>
        \A f \in get_naked_java_files(start, Root) :
            f.name # ModuleInfo =>
                IF is_junit_java_file(f) THEN Under(<<"test">>, f) ELSE Under(<<"src">>, f)

\* C11: when the .classpath file is absent or found invalid and the copy of the
\* default file does not fail, the .classpath file in use after the decision step
\* is the default file with the path of its src entry set to the found src
\* directory, or left as it is when no src directory was found or its search raised.
TemplateWithSrc(dir) == [ClasspathTemplate EXCEPT !.entries[1].path = dir]
ClasspathAbsentOrInvalid ==
    /\ classpath_file_search
    /\ \/ classpath_file = None
       \/ ClasspathVerdict(tree.cp[classpath_file]) = "invalid"
C11_InjectedContent ==
    [][(pc = "match" /\ pc' = "coverage" /\ ClasspathAbsentOrInvalid
            /\ "copy_classpath" \notin faults') =>
          /\ classpath_file' # None
          /\ tree'.cp[classpath_file'] =
                IF SrcFound THEN TemplateWithSrc(src_dir) ELSE ClasspathTemplate]_vars
C11_Witness ==
    /\ pc = "coverage" /\ "inject_classpath" \in log
    /\ start.cp[Root] = CLib /\ project_root = Root
    /\ src_dir = <<"app", "src">>
    /\ ClasspathInUse = TemplateWithSrc(<<"app", "src">>)

\* C12: with a valid .classpath file whose declared source directory exists and
\* no .java file directly at the project root, the coverage check appends, for
\* each directory with .java files that no declared source covers, exactly one src
\* entry covering it, changes no existing entry and moves no file.
DeclaredSrcExists ==
    /\ classpath_file # None /\ classpath_file_search
    /\ is_valid_classpath_file(ClasspathInUse)
    /\ get_classpath_src(ClasspathInUse) # Root
    /\ (project_root \o get_classpath_src(ClasspathInUse)) \in tree.dirs
UncoveredDirs ==
    {d \in {RelativeTo(f.dir, project_root) : f \in JavaFilesUnder(tree, project_root)} :
        d # Root /\ ~DeclaredCovers(DeclaredSources, d)}
C12_CoverageAppendsOneEntry ==
    [][(pc = "coverage" /\ DeclaredSrcExists /\ faults' = {}
            /\ get_naked_java_files(tree, project_root) = {}) =>
          LET old == tree.cp[classpath_file].entries
              new == tree'.cp[classpath_file].entries
          IN /\ Len(new) >= Len(old) /\ SubSeq(new, 1, Len(old)) = old
             /\ \A i \in (Len(old) + 1)..Len(new) : new[i].kind = "src"
             /\ \A d \in UncoveredDirs :
                  Cardinality({i \in (Len(old) + 1)..Len(new) :
                                  IsPrefix(new[i].path, d)}) = 1
             /\ tree'.files = tree.files]_vars

\* C13: a search that raised is not treated as a search that found nothing: after
\* a failed .project search no .project file is injected and no step fails for
\* want of a .project path; after a failed src search no src directory is created
\* and no file is moved by the decision step.
C13_SearchErrorIsNotAbsent ==
    [][/\ ~project_file_search' => log' \cap {"inject_project", "project_write"} = {}
       /\ (~project_file_search /\ pc = "rename") => pc' # "crashed"
       /\ (~src_dir_search' /\ pc' = "coverage") => log' \cap {"mkdir", "move"} = {}]_vars

\* C14: in a run whose .classpath search raised, no .classpath file is injected
\* or edited, no directory is created, no file is moved and the coverage check is
\* not run, whatever the src directory search returned.
C14_ClasspathSearchErrorNoAction ==
    ~classpath_file_search =>
        /\ log \cap {"inject_classpath", "classpath_write", "mkdir", "move",
                     "coverage_check"} = {}
        /\ tree.cp = start.cp /\ tree.dirs = start.dirs
        /\ \A f \in tree.files : f \in start.files
C14_Witness ==
    /\ RunEnded /\ ~classpath_file_search /\ src_dir = None
    /\ start.cp[Root] = CLib
    /\ get_naked_java_files(tree, project_root) # {}

\* C15: whenever main() calls the .classpath validator on the file it found, the
\* validator returns a boolean and does not raise.
C15_ValidatorNeverRaises ==
    (pc = "match" /\ ClasspathFound) => ClasspathVerdict(tree.cp[classpath_file]) # RAISE

\* C16: the validator returns valid exactly when the document parses, has no lib
\* entry, every con entry naming a user library names JavaFX and no con entry
\* naming the JRE container has a further path segment; otherwise it returns
\* invalid.
HasSeg(e, segs) == e.path # None /\ \E k \in DOMAIN e.path : e.path[k] \in segs
MinimumWorkingFormat(doc) ==
    /\ doc.parses
    /\ \A i \in DOMAIN doc.entries :
         LET e == doc.entries[i] IN
         /\ e.kind # "lib"
         /\ (e.kind = "con" /\ HasSeg(e, UserLibSegs)) =>
                (Len(e.path) >= 2 /\ e.path[2] = "JavaFX")
         /\ (e.kind = "con" /\ HasSeg(e, JreSegs) /\ ~HasSeg(e, UserLibSegs)) =>
                Len(e.path) = 1
C16_ValidatorExact ==
    (pc = "match" /\ ClasspathFound) =>
        LET doc == tree.cp[classpath_file] IN
        /\ is_valid_classpath_file(doc) <=> MinimumWorkingFormat(doc)
        /\ ClasspathVerdict(doc) = "invalid" <=> ~MinimumWorkingFormat(doc)

\* C17: when the .project file found is invalid and the copy of the default file
\* does not fail, the default file replaces the file that was found, where it was
\* found; the .project file found afterwards is that file and no invalid .project
\* file is left.
ProjectFoundInvalid ==
    /\ pc = "project" /\ project_file # None /\ project_file_search
    /\ ~is_valid_project_file(tree.proj[project_file])
C17_ProjectInjectedInPlace ==
    [][(ProjectFoundInvalid /\ "copy_project" \notin faults') =>
          /\ tree'.proj[project_file] = ProjectTemplate
          /\ project_file' = project_file
          /\ project_root' = project_file
          /\ \A d \in DescDirs :
                ~tree'.proj[d].absent => is_valid_project_file(tree'.proj[d])]_vars

\* C18: no step of the decision table or of the coverage check moves a .java file
\* that lies in a subdirectory of the project root.
C18_OnlyNakedFilesMoved ==
    [][(pc = "match" \/ pc = "coverage") =>
          \A f \in JavaFilesUnder(tree, project_root) :
              f.dir # project_root =>
                  ~\E g \in tree'.files :
                        (g.name = f.name /\ g.orig = f.orig /\ g.body = f.body
                            /\ g.dir # f.dir)]_vars

\* C19: in case 1 with a valid .classpath file: when the declared src path already
\* is the found src directory nothing is written; otherwise the src path read back
\* from the file after the step is the found src directory.
Case1Valid ==
    /\ pc = "match" /\ ClasspathFound /\ SrcFound
    /\ is_valid_classpath_file(tree.cp[classpath_file])
C19_Case1SetsDeclaredSrc ==
    [][Case1Valid =>
          /\ classpath_file' = classpath_file
          /\ IF get_classpath_src(tree.cp[classpath_file]) = src_dir
             THEN tree' = tree /\ log' = log
             ELSE get_classpath_src(tree'.cp[classpath_file]) = src_dir]_vars
C19_Witness ==
    /\ pc = "coverage" /\ "classpath_write" \in log /\ "inject_classpath" \notin log
    /\ start.cp[Root] = CStd /\ classpath_file = Root
    /\ src_dir = <<"app", "src">>
    /\ get_classpath_src(ClasspathInUse) = <<"app", "src">>

\* C20: module-info.java is deleted before the coverage check runs: when the
\* check is about to run, no module-info.java is left under the project root.
C20_DeletedBeforeCoverage ==
    (pc = "coverage" /\ classpath_file_search) =>
        ~\E f \in JavaFilesUnder(tree, project_root) : f.name = ModuleInfo

\* C21: when a run has ended no module-info.java is left under the project root,
\* and the step that deletes it deletes no other file.
C21_NoModuleInfoRemains ==
    [][(pc = "delete") =>
          /\ ~\E f \in JavaFilesUnder(tree', project_root) : f.name = ModuleInfo
          /\ \A f \in tree.files : f.name # ModuleInfo => f \in tree'.files]_vars

\* C22: the coverage check takes a folder with .java files as covered exactly
\* when the folder, its parent or another of its ancestors is a declared source;
\* a declared source below the folder does not make it covered.
C22_CoveredIff ==
    (pc = "coverage" /\ classpath_file # None /\ classpath_file_search) =>
        \A java_file_folder \in find_java_file_folders(tree, project_root) :
            Covered(java_file_folder, DeclaredSources)
                <=> DeclaredCovers(DeclaredSources, java_file_folder)

\* C23: the folders the coverage check examines are the directories that hold a
\* .java file under the project root, each relative to the project root, the
\* root itself standing for the files directly at the project root.
C23_ImmediateFolders ==
    (pc = "coverage") =>
        find_java_file_folders(tree, project_root)
            = {RelativeTo(f.dir, project_root) : f \in JavaFilesUnder(tree, project_root)}

\* C24 as stated: within a run, a path declared by a src entry of the .classpath
\* file in use is still declared by it after every later step.
SourcesOf(t, file) == IF file = None THEN {} ELSE get_all_classpath_sources(t.cp[file])
C24_SourcesOnlyGrow ==
    [][run' = run => SourcesOf(tree, classpath_file) \subseteq SourcesOf(tree', classpath_file')]_vars
\* C24 amended: from the coverage check on, the .classpath file in use stays the
\* same file and every path a src entry declares stays declared; only the
\* decision step before it may replace a declared path or the whole file.
C24_SourcesGrowFromCoverage ==
    [][(pc = "coverage" \/ pc = "delete" \/ pc = "rename") =>
          /\ classpath_file' = classpath_file
          /\ SourcesOf(tree, classpath_file) \subseteq SourcesOf(tree', classpath_file)]_vars
C24_Witness ==
    /\ pc = "delete" /\ "coverage_check" \in log /\ "classpath_write" \in log
    /\ "inject_classpath" \notin log /\ run = 1
    /\ start.cp[Root] = CStd /\ classpath_file = Root
    /\ DeclaredSources = {<<"src">>, <<"lib">>}


\* C25: when the coverage check relocates the naked files and no move fails, every
\* naked file that declares a package ends in the directory named after the package
\* under a declared source path, and that directory exists afterwards.
NakedRelocation ==
    /\ pc = "coverage" /\ pc' = "delete"
    /\ classpath_file_search /\ classpath_file # None
    /\ ClasspathInUse.parses
    /\ ContainsSrc(get_classpath_src(ClasspathInUse))
    /\ ~Covered(Root, DeclaredSources)
    /\ faults' = {}
C25_PackageDirCreated ==
    [][NakedRelocation =>
          \A f \in get_naked_java_files(tree, project_root) :
              get_java_file_package(f) \notin {NoPkg, RAISE} =>
                  \E g \in tree'.files, source \in DeclaredSources :
                      /\ g.name = f.name /\ g.body = f.body /\ g.orig = f.orig
                      /\ g.dir = Append(project_root \o source, get_java_file_package(f))
                      /\ g.dir \in tree'.dirs]_vars


\* C26: when the .classpath file declares no primary source entry and the coverage
\* check cannot add one, no naked file is moved; stated for the naked files that are
\* not marked as tests: each one is still at the project root after the coverage
\* check.
NoPrimarySource ==
    /\ pc = "coverage" /\ pc' = "delete"
    /\ classpath_file_search /\ classpath_file # None
    /\ ClasspathInUse.parses
    /\ ~ContainsSrc(get_classpath_src(ClasspathInUse))
    /\ \A folder \in find_java_file_folders(tree, project_root) : ~ContainsSrc(folder)
C26_NoPrimaryNoMove ==
    [][NoPrimarySource =>
          \A f \in get_naked_java_files(tree, project_root) :
              ~is_junit_java_file(f) => f \in tree'.files]_vars


\* C27: the package inferred for a .java file is the word after the keyword
\* "package", without a trailing ";", on the first line among the first 50 that is
\* not a comment line and contains the keyword; it is none when there is no such
\* line; the inference never raises.
RECURSIVE DeclaredPackage(_, _)
DeclaredPackage(lines, i) ==
    IF i > Len(lines) \/ i > ScanLimit THEN NoPkg
    ELSE IF ~IsCommentLine(lines[i]) /\ HasWord(lines[i], PackageWords)
         THEN LET k == Min({j \in DOMAIN lines[i] : lines[i][j] \in PackageWords})
              IN IF k + 1 \in DOMAIN lines[i] THEN StripSemi(lines[i][k + 1]) ELSE NoPkg
         ELSE DeclaredPackage(lines, i + 1)
C27_PackageInferred ==
    \A f \in tree.files : get_java_file_package(f) = DeclaredPackage(f.body, 1)


\* C28: whenever check_classpath_sources is called, the .classpath file it is given
\* exists, parses and is valid, also after an injection that failed.
CoverageCalled == pc = "coverage" /\ classpath_file_search
C28_CoverageGetsValidClasspath ==
    CoverageCalled =>
        /\ classpath_file # None
        /\ ~ClasspathInUse.absent
        /\ ClasspathInUse.parses
        /\ is_valid_classpath_file(ClasspathInUse)


\* C29: when case 1 updates the declared src path of a valid .classpath file that has
\* a primary src entry, only that entry changes: every other entry is as before,
\* and no entry is added or removed.
PrimaryIdx(doc) == Min({i \in SrcIdx(doc) : ContainsSrc(doc.entries[i].path)})
SrcPathUpdated ==
    /\ pc = "match" /\ pc' = "coverage"
    /\ classpath_file # None /\ classpath_file_search
    /\ src_dir # None /\ src_dir_search
    /\ is_valid_classpath_file(ClasspathInUse)
    /\ ContainsSrc(get_classpath_src(ClasspathInUse))
    /\ get_classpath_src(ClasspathInUse) # src_dir
C29_OnlyPrimaryChanged ==
    [][SrcPathUpdated =>
          LET old == ClasspathInUse.entries
              new == tree'.cp[classpath_file].entries
          IN /\ Len(new) = Len(old)
             /\ \A i \in DOMAIN old : i # PrimaryIdx(ClasspathInUse) => new[i] = old[i]]_vars


\* C30: the .classpath file that the decision step has left in use and that the
\* coverage check reads lies in the project root or below it; stated for runs
\* without an I/O fault.
C30_ClasspathInsideProjectRoot ==
    (CoverageCalled /\ classpath_file # None /\ NoFault) =>
        IsPrefix(project_root, classpath_file)

====
